---- MODULE Spec2Model ----
(***************************************************************************)
(* Model of the release-build pipeline of tooling/cli.rs/src/build.rs:     *)
(* the Build builder and Build::run, one action per builder method and per *)
(* stage of run (a stage is one external call, or a few that follow each   *)
(* other with nothing in between).  External collaborators (configuration loader, manifest   *)
(* rewriter, shell hook, compiler, settings resolver, bundler, signer) are *)
(* the environment: every call is recorded in `log` with its outcome, and  *)
(* the outcome is chosen nondeterministically.                             *)
(*                                                                         *)
(* Option<T> is a sequence of length <= 1: None is <<>>, Some(x) is <<x>>. *)
(***************************************************************************)
EXTENDS Naturals, Sequences, FiniteSets

\* ------------------------------------------------------------------ bounds
\* builder methods called on one Build before run
MaxCalls == 1
\* length of the list handed to Build::bundles
MaxNames == 2
\* artifact paths of one bundle
MaxPaths == 1

\* ------------------------------------------------------------ value domains
None == <<>>
Some(x) == <<x>>
IsSome(o) == Len(o) = 1
Unwrap(o) == o[1]
Opt(S) == {None} \cup {Some(x) : x \in S}

SeqsUpTo(S, n) == UNION {[1..k -> S] : k \in 0..n}

\* strings a caller can put in the requested bundle-format list
ShortNames == {"none", "updater", "bogus"}
\* the package types a bundle can have
PackageTypes == {"Deb", "Updater"}
\* the name of the cargo package, i.e. of the compiled binary
BinName == "app"
\* the one configured distDir path
DistDir == "../dist"
Platforms == {"unix", "windows"}

\* the configurations get_config can load
Configs ==
  [ before_build_command : Opt({"", "npm run build"}),
    dist_dir             : {DistDir},
    runner               : Opt({"npm"}),
    product_name         : Opt({BinName, "MyApp"}),
    bundle_active        : BOOLEAN,
    updater_active       : BOOLEAN,
    updater_pubkey       : Opt({"PUBKEY"}) ]

\* the file name of an executable on the Windows family
ExeName(n) ==
  CASE n = "app"   -> "app.exe"
    [] n = "MyApp" -> "MyApp.exe"

\* artifact j of bundle i, and the signature file the signer writes for a path
PathTable ==
  << <<"b1/a1", "b1/a2", "b1/a3", "b1/a4">>,
     <<"b2/a1", "b2/a2", "b2/a3", "b2/a4">>,
     <<"b3/a1", "b3/a2", "b3/a3", "b3/a4">>,
     <<"b4/a1", "b4/a2", "b4/a3", "b4/a4">> >>
SigTable ==
  << <<"b1/a1.sig", "b1/a2.sig", "b1/a3.sig", "b1/a4.sig">>,
     <<"b2/a1.sig", "b2/a2.sig", "b2/a3.sig", "b2/a4.sig">>,
     <<"b3/a1.sig", "b3/a2.sig", "b3/a3.sig", "b3/a4.sig">>,
     <<"b4/a1.sig", "b4/a2.sig", "b4/a3.sig", "b4/a4.sig">> >>
SignaturePath(p) ==
  LET ij == CHOOSE ij \in (1..4) \X (1..4) : PathTable[ij[1]][ij[2]] = p
  IN  SigTable[ij[1]][ij[2]]

\* ------------------------------------------------------------------- state
VARIABLES
  self,          \* the Build value: runner, debug, verbose, target, bundles, config
  calls,         \* builder methods called so far
  pc,            \* the stage Build::run is about to execute
  platform,      \* the cfg(windows) the binary was compiled for
  distExists,    \* whether the distDir path exists on disk now
  distAtStart,   \* whether it existed when run was entered
  config,        \* Option<Config>: the loaded configuration snapshot
  exit_status,   \* Option: the exit status of the hook's child process
  lockHeld,      \* whether run holds config_guard
  types,         \* Option<Vec<PackageType>> handed to SettingsBuilder::package_types
  bundles,       \* the Vec<Bundle> bundle_project returned
  todo,          \* the artifact paths the signing loop has still to visit
  signed_paths,  \* signature paths collected by the signing loop
  printed,       \* Option: what print_signed_updater_archive wrote
  log,           \* every external call made, in order, with its outcome
  result         \* what run returned: kind "Running" until it returns

vars == << self, calls, pc, platform, distExists, distAtStart, config,
           exit_status, lockHeld, types, bundles, todo, signed_paths, printed, log, result >>

Windows == platform = "windows"
config_ == Unwrap(config)

\* one external call: which, with what, and whether it succeeded
Call(stage, arg, ok) == [stage |-> stage, arg |-> arg, ok |-> ok]
\* the calls of one kind made so far
CallsOf(stage) == SelectSeq(log, LAMBDA c : c.stage = stage)
Count(stage) == Len(CallsOf(stage))

Running == [kind |-> "Running", arg |-> ""]
Ok == [kind |-> "Ok", arg |-> ""]
Err(kind, arg) == [kind |-> kind, arg |-> arg]

\* Build::new(): Default::default()
Init ==
  /\ self = [runner |-> None, debug |-> FALSE, verbose |-> FALSE, target |-> None,
             bundles |-> None, config |-> None]
  /\ calls = 0
  /\ pc = "builder"
  /\ platform \in Platforms
  /\ distExists \in BOOLEAN
  /\ distAtStart = distExists
  /\ config = None
  /\ exit_status = None
  /\ lockHeld = FALSE
  /\ types = None
  /\ bundles = <<>>
  /\ todo = <<>>
  /\ signed_paths = <<>>
  /\ printed = None
  /\ log = <<>>
  /\ result = Running

\* ---------------------------------------------------------- builder methods
runUnchanged ==
  UNCHANGED << pc, platform, distExists, distAtStart, config, exit_status,
               lockHeld, types, bundles, todo, signed_paths, printed, log, result >>

Builder(field, value) ==
  /\ pc = "builder"
  /\ calls < MaxCalls
  /\ self' = [self EXCEPT ![field] = value]
  /\ calls' = calls + 1
  /\ runUnchanged

\* target() and config() only store a string that run forwards to
\* build_project and get_config; the fields keep their default here
debug == Builder("debug", TRUE)
verbose == Builder("verbose", TRUE)
runner == \E r \in {"yarn"} : Builder("runner", Some(r))
SetBundles == \E names \in SeqsUpTo(ShortNames, MaxNames) : Builder("bundles", Some(names))

\* ------------------------------------------------------------- Build::run
\* an early return, or the end of run: config_guard is dropped with the frame
Return(r) ==
  /\ result' = r
  /\ pc' = "done"
  /\ lockHeld' = FALSE

Logged(cs) == log' = log \o cs

\* `?` on the outcome of one external call: go on, or return its error
Try(stage, arg, ok, next, kind, errArg) ==
  /\ Logged(<<Call(stage, arg, ok)>>)
  /\ IF ok
       THEN /\ pc' = next
            /\ UNCHANGED << result, lockHeld >>
       ELSE Return(Err(kind, errArg))

\* run(self) consumes the builder and loads the configuration
run ==
  /\ pc = "builder"
  /\ calls' = 0
  /\ \E ok \in BOOLEAN :
       /\ Try("get_config", self.config, ok, "set_current_dir", "ConfigLoad", "")
       /\ IF ok THEN \E c \in Configs : config' = Some(c)
                ELSE UNCHANGED config
  /\ UNCHANGED << self, platform, distExists, distAtStart, exit_status,
                  types, bundles, todo, signed_paths, printed >>

set_current_dir ==
  /\ pc = "set_current_dir"
  /\ \E ok \in BOOLEAN :
       Try("set_current_dir", <<>>, ok, "rewrite_manifest", "WorkingDirectory",
           "failed to change current working directory")
  /\ UNCHANGED << self, calls, platform, distExists, distAtStart, config, exit_status, types,
                  bundles, todo, signed_paths, printed >>

\* rewrite_manifest(config.clone())?, then config.lock().unwrap(): the guard
\* lives until run returns
rewrite_manifest ==
  /\ pc = "rewrite_manifest"
  /\ \E ok \in BOOLEAN :
       /\ Logged(<<Call("rewrite_manifest", <<>>, ok)>>)
       /\ IF ok
            THEN /\ lockHeld' = TRUE
                 /\ pc' = "before_build"
                 /\ UNCHANGED result
            ELSE Return(Err("ManifestRewrite", ""))
  /\ UNCHANGED << self, calls, platform, distExists, distAtStart, config, exit_status, types,
                  bundles, todo, signed_paths, printed >>

\* the exit statuses of the hook's child process
ExitStatuses == {0, 1}
\* helpers::execute_with_output: Ok iff the child exited with status 0
execute_with_output(status) == status = 0

\* seeded fault: the cfg(target_os = "windows") arm is missing
ShellAlwaysSh == <<"sh", "-c">>

\* the shell the hook is run through
Shell == IF Windows THEN <<"cmd", "/C">> ELSE <<"sh", "-c">>

\* seeded fault: the hook's outcome is not propagated with `?`
before_build_unchecked ==
  /\ pc = "before_build"
  /\ LET cmd == config_.before_build_command IN
     IF IsSome(cmd) /\ Unwrap(cmd) # ""
       THEN \E status \in ExitStatuses :
              /\ Logged(<<Call("before_build", Shell \o cmd, execute_with_output(status))>>)
              /\ exit_status' = Some(status)
              /\ distExists' \in BOOLEAN
              /\ pc' = "dist_dir"
              /\ UNCHANGED << result, lockHeld >>
       ELSE /\ pc' = "dist_dir"
            /\ UNCHANGED << distExists, exit_status, log, result, lockHeld >>
  /\ UNCHANGED << self, calls, platform, distAtStart, config, types, bundles, todo,
                  signed_paths, printed >>

\* seeded fault: the is_empty() test is missing, an empty command is spawned too
before_build_empty_too ==
  /\ pc = "before_build"
  /\ LET cmd == config_.before_build_command IN
     IF IsSome(cmd)
       THEN \E status \in ExitStatuses :
              /\ Try("before_build", Shell \o cmd, execute_with_output(status),
                     "dist_dir", "PreBuildHook", Unwrap(cmd))
              /\ exit_status' = Some(status)
              /\ IF execute_with_output(status)
                   THEN distExists' \in BOOLEAN
                   ELSE UNCHANGED distExists
       ELSE /\ pc' = "dist_dir"
            /\ UNCHANGED << distExists, exit_status, log, result, lockHeld >>
  /\ UNCHANGED << self, calls, platform, distAtStart, config, types, bundles, todo,
                  signed_paths, printed >>

\* the optional before-build hook; a hook that ran to completion may have
\* created or removed the distDir
before_build ==
  /\ pc = "before_build"
  /\ LET cmd == config_.before_build_command IN
     IF IsSome(cmd) /\ Unwrap(cmd) # ""
       THEN \E status \in ExitStatuses :
              /\ Try("before_build", Shell \o cmd, execute_with_output(status),
                     "dist_dir", "PreBuildHook", Unwrap(cmd))
              /\ exit_status' = Some(status)
              /\ IF execute_with_output(status)
                   THEN distExists' \in BOOLEAN
                   ELSE UNCHANGED distExists
       ELSE /\ pc' = "dist_dir"
            /\ UNCHANGED << distExists, exit_status, log, result, lockHeld >>
  /\ UNCHANGED << self, calls, platform, distAtStart, config, types, bundles, todo,
                  signed_paths, printed >>

\* seeded fault: the result of exists() is not acted on
dist_dir_unchecked ==
  /\ pc = "dist_dir"
  /\ Logged(<<Call("exists", <<config_.dist_dir>>, distExists)>>)
  /\ pc' = "build_project"
  /\ UNCHANGED << self, calls, platform, distExists, distAtStart, config, exit_status,
                  types, bundles, todo, signed_paths, printed, result, lockHeld >>

\* seeded fault: the configuration's runner shadows the builder's override
ResolveRunnerConfigFirst(override, runner_from_config) ==
  IF IsSome(runner_from_config) THEN Unwrap(runner_from_config)
  ELSE IF IsSome(override) THEN Unwrap(override)
  ELSE "cargo"

\* self.runner.or(runner_from_config).unwrap_or_else(|| "cargo")
ResolveRunner(override, runner_from_config) ==
  IF IsSome(override) THEN Unwrap(override)
  ELSE IF IsSome(runner_from_config) THEN Unwrap(runner_from_config)
  ELSE "cargo"

Profile == IF self.debug THEN "debug" ELSE "release"

\* seeded fault: the compiler is invoked first, the distDir is looked at after
dist_dir_after_compile ==
  /\ pc = "dist_dir"
  /\ \E ok \in BOOLEAN :
       IF ~ok
         THEN /\ Logged(<<Call("build_project",
                               <<ResolveRunner(self.runner, config_.runner), Profile>>
                                 \o self.target, FALSE)>>)
              /\ Return(Err("Compile", "failed to build app"))
         ELSE /\ Logged(<<Call("build_project",
                               <<ResolveRunner(self.runner, config_.runner), Profile>>
                                 \o self.target, TRUE),
                          Call("exists", <<config_.dist_dir>>, distExists)>>)
              /\ IF distExists
                   THEN /\ pc' = "app_settings"
                        /\ UNCHANGED << result, lockHeld >>
                   ELSE Return(Err("MissingWebAssets", config_.dist_dir))
  /\ UNCHANGED << self, calls, platform, distExists, distAtStart, config, exit_status,
                  types, bundles, todo, signed_paths, printed >>

\* seeded fault: the existence of the distDir is evaluated before the hook runs
dist_dir_stale ==
  /\ pc = "dist_dir"
  /\ Try("exists", <<config_.dist_dir>>, distAtStart, "build_project",
         "MissingWebAssets", config_.dist_dir)
  /\ UNCHANGED << self, calls, platform, distExists, distAtStart, config, exit_status, types,
                  bundles, todo, signed_paths, printed >>

\* web_asset_path.exists()
dist_dir ==
  /\ pc = "dist_dir"
  /\ Try("exists", <<config_.dist_dir>>, distExists, "build_project",
         "MissingWebAssets", config_.dist_dir)
  /\ UNCHANGED << self, calls, platform, distExists, distAtStart, config, exit_status, types,
                  bundles, todo, signed_paths, printed >>

\* rust::build_project(runner, &self.target, self.debug)
build_project ==
  /\ pc = "build_project"
  /\ \E ok \in BOOLEAN :
       Try("build_project",
           <<ResolveRunner(self.runner, config_.runner), Profile>> \o self.target,
           ok, "app_settings", "Compile", "failed to build app")
  /\ UNCHANGED << self, calls, platform, distExists, distAtStart, config, exit_status, types,
                  bundles, todo, signed_paths, printed >>

\* rust::AppSettings::new(&config_)?, then app_settings.get_out_dir(self.debug)?
app_settings ==
  /\ pc = "app_settings"
  /\ \/ Try("app_settings", <<>>, FALSE, "rename", "AppSettings", "")
     \/ /\ Logged(<<Call("app_settings", <<>>, TRUE),
                    Call("get_out_dir", <<Profile>>, FALSE)>>)
        /\ Return(Err("OutDir", "failed to get project out directory"))
     \/ /\ Logged(<<Call("app_settings", <<>>, TRUE),
                    Call("get_out_dir", <<Profile>>, TRUE)>>)
        /\ pc' = "rename"
        /\ UNCHANGED << result, lockHeld >>
  /\ UNCHANGED << self, calls, platform, distExists, distAtStart, config, exit_status, types,
                  bundles, todo, signed_paths, printed >>

\* the file name of a binary in out_dir on this platform
BinaryFile(n) == IF Windows THEN ExeName(n) ELSE n

\* seeded fault: the result of fs::rename is dropped
rename_unchecked ==
  /\ pc = "rename"
  /\ IF IsSome(config_.product_name)
       THEN \E ok \in BOOLEAN :
              Logged(<<Call("rename",
                            <<BinaryFile(BinName),
                              BinaryFile(Unwrap(config_.product_name))>>, ok)>>)
       ELSE UNCHANGED log
  /\ pc' = "bundle"
  /\ UNCHANGED << self, calls, platform, distExists, distAtStart, config, exit_status,
                  types, bundles, todo, signed_paths, printed, result, lockHeld >>

\* seeded fault: a product name equal to the binary's name is left alone
rename_if_distinct ==
  /\ pc = "rename"
  /\ IF IsSome(config_.product_name) /\ Unwrap(config_.product_name) # BinName
       THEN \E ok \in BOOLEAN :
              Try("rename",
                  <<BinaryFile(BinName), BinaryFile(Unwrap(config_.product_name))>>,
                  ok, "bundle", "Rename", "")
       ELSE /\ pc' = "bundle"
            /\ UNCHANGED << log, result, lockHeld >>
  /\ UNCHANGED << self, calls, platform, distExists, distAtStart, config, exit_status, types,
                  bundles, todo, signed_paths, printed >>

\* fs::rename of the compiled binary to the product name
rename ==
  /\ pc = "rename"
  /\ IF IsSome(config_.product_name)
       THEN \E ok \in BOOLEAN :
              Try("rename",
                  <<BinaryFile(BinName), BinaryFile(Unwrap(config_.product_name))>>,
                  ok, "bundle", "Rename", "")
       ELSE /\ pc' = "bundle"
            /\ UNCHANGED << log, result, lockHeld >>
  /\ UNCHANGED << self, calls, platform, distExists, distAtStart, config, exit_status, types,
                  bundles, todo, signed_paths, printed >>

\* seeded fault: bundling does not look at the configuration
BundleActiveAlways(c) == TRUE

\* config_.tauri.bundle.active
BundleActive(c) == c.bundle_active

\* the merge module of the other architecture, and the one written
StaleMsm(x86) == IF x86 THEN "Microsoft_VC142_CRT_x64.msm"
                        ELSE "Microsoft_VC142_CRT_x86.msm"
MatchingMsm(x86) == IF x86 THEN "Microsoft_VC142_CRT_x86.msm"
                           ELSE "Microsoft_VC142_CRT_x64.msm"

\* PackageType::from_short_name
from_short_name(name) ==
  CASE name = "deb"     -> Some("Deb")
    [] name = "msi"     -> Some("WindowsMsi")
    [] name = "app"     -> Some("OsxBundle")
    [] name = "updater" -> Some("Updater")
    [] OTHER            -> None

RECURSIVE NamesLoop(_, _), NamesLoopNoSentinel(_, _), NamesLoopSkipUnknown(_, _)

\* seeded fault: "none" is not special, it goes to from_short_name like any name
NamesLoopNoSentinel(names, acc) ==
  IF names = <<>> THEN [types |-> acc, bad |-> None]
  ELSE LET t == from_short_name(Head(names)) IN
       IF IsSome(t) THEN NamesLoopNoSentinel(Tail(names), Append(acc, Unwrap(t)))
                    ELSE [types |-> acc, bad |-> Some(Head(names))]

\* seeded fault: a name from_short_name does not know is skipped
NamesLoopSkipUnknown(names, acc) ==
  IF names = <<>> THEN [types |-> acc, bad |-> None]
  ELSE IF Head(names) = "none" THEN [types |-> acc, bad |-> None]
  ELSE LET t == from_short_name(Head(names)) IN
       IF IsSome(t) THEN NamesLoopSkipUnknown(Tail(names), Append(acc, Unwrap(t)))
                    ELSE NamesLoopSkipUnknown(Tail(names), acc)

\* seeded fault: "none" also drops the types pushed before it
RECURSIVE NamesLoopNoneResets(_, _)
NamesLoopNoneResets(names, acc) ==
  IF names = <<>> THEN [types |-> acc, bad |-> None]
  ELSE IF Head(names) = "none" THEN [types |-> <<>>, bad |-> None]
  ELSE LET t == from_short_name(Head(names)) IN
       IF IsSome(t) THEN NamesLoopNoneResets(Tail(names), Append(acc, Unwrap(t)))
                    ELSE [types |-> acc, bad |-> Some(Head(names))]

\* for name in names { .. }: the types pushed, and the name that was rejected
NamesLoop(names, acc) ==
  IF names = <<>> THEN [types |-> acc, bad |-> None]
  ELSE IF Head(names) = "none" THEN [types |-> acc, bad |-> None]
  ELSE LET t == from_short_name(Head(names)) IN
       IF IsSome(t) THEN NamesLoop(Tail(names), Append(acc, Unwrap(t)))
                    ELSE [types |-> acc, bad |-> Some(Head(names))]

\* seeded fault: the requested names are validated before the merge module
\* is staged
merge_modules_after_validation ==
  /\ pc = "bundle"
  /\ IF ~BundleActive(config_)
       THEN /\ Return(Ok)
            /\ UNCHANGED log
       ELSE IF IsSome(self.bundles) /\ NamesLoop(Unwrap(self.bundles), <<>>).bad # None
         THEN /\ Logged(<<Call("from_short_name", Unwrap(self.bundles), FALSE)>>)
              /\ Return(Err("UnsupportedBundleFormat",
                            Unwrap(NamesLoop(Unwrap(self.bundles), <<>>).bad)))
       ELSE IF Windows
         THEN \E x86 \in BOOLEAN, ok \in BOOLEAN :
                /\ Logged(<<Call("remove_file", <<StaleMsm(x86)>>, TRUE),
                            Call("write", <<MatchingMsm(x86)>>, ok)>>)
                /\ IF ok
                     THEN /\ pc' = "settings_builder"
                          /\ UNCHANGED << result, lockHeld >>
                     ELSE Return(Err("MergeModuleWrite", ""))
         ELSE /\ pc' = "settings_builder"
              /\ UNCHANGED << log, result, lockHeld >>
  /\ UNCHANGED << self, calls, platform, distExists, distAtStart, config, exit_status, types,
                  bundles, todo, signed_paths, printed >>

\* if config_.tauri.bundle.active: on Windows, stage the merge module.
\* cfg!(target_arch = "x86") is read nowhere else, so it is drawn here.  The
\* result of remove_file is discarded (let _ =): whether the stale file was
\* there or could be removed changes nothing, and the call is recorded as ok.
merge_modules ==
  /\ pc = "bundle"
  /\ IF ~BundleActive(config_)
       THEN /\ Return(Ok)
            /\ UNCHANGED log
       ELSE IF Windows
         THEN \E x86 \in BOOLEAN, ok \in BOOLEAN :
                /\ Logged(<<Call("remove_file", <<StaleMsm(x86)>>, TRUE),
                            Call("write", <<MatchingMsm(x86)>>, ok)>>)
                /\ IF ok
                     THEN /\ pc' = "settings_builder"
                          /\ UNCHANGED << result, lockHeld >>
                     ELSE Return(Err("MergeModuleWrite", ""))
         ELSE /\ pc' = "settings_builder"
              /\ UNCHANGED << log, result, lockHeld >>
  /\ UNCHANGED << self, calls, platform, distExists, distAtStart, config, exit_status, types,
                  bundles, todo, signed_paths, printed >>

\* SettingsBuilder::new() ... get_bundle_settings(..)? ... get_binaries(..)?
settings_builder ==
  /\ pc = "settings_builder"
  /\ \/ Try("get_bundle_settings", <<>>, FALSE, "package_types", "BundleSettings", "")
     \/ /\ Logged(<<Call("get_bundle_settings", <<>>, TRUE),
                    Call("get_binaries", <<>>, FALSE)>>)
        /\ Return(Err("Binaries", ""))
     \/ /\ Logged(<<Call("get_bundle_settings", <<>>, TRUE),
                    Call("get_binaries", <<>>, TRUE)>>)
        /\ pc' = "package_types"
        /\ UNCHANGED << result, lockHeld >>
  /\ UNCHANGED << self, calls, platform, distExists, distAtStart, config, exit_status, types,
                  bundles, todo, signed_paths, printed >>

\* if let Some(names) = self.bundles { .. settings_builder.package_types(types) }
package_types ==
  /\ pc = "package_types"
  /\ IF IsSome(self.bundles)
       THEN LET r == NamesLoop(Unwrap(self.bundles), <<>>) IN
            /\ Logged(<<Call("from_short_name", Unwrap(self.bundles), r.bad = None)>>)
            /\ IF r.bad = None
                 THEN /\ types' = Some(r.types)
                      /\ pc' = "build"
                      /\ UNCHANGED << result, lockHeld >>
                 ELSE /\ Return(Err("UnsupportedBundleFormat", Unwrap(r.bad)))
                      /\ UNCHANGED types
       ELSE /\ pc' = "build"
            /\ UNCHANGED << types, log, result, lockHeld >>
  /\ UNCHANGED << self, calls, platform, distExists, distAtStart, config, exit_status, bundles,
                  todo, signed_paths, printed >>

\* settings_builder.build()
build ==
  /\ pc = "build"
  /\ \E ok \in BOOLEAN :
       Try("build", <<>>, ok, "bundle_project", "SettingsBuild",
           "failed to build bundler settings")
  /\ UNCHANGED << self, calls, platform, distExists, distAtStart, config, exit_status, types,
                  bundles, todo, signed_paths, printed >>

\* the package types bundle_project works through when none were requested
DefaultTypeLists == {<<>>, <<"Deb">>, <<"Updater">>, <<"Deb", "Updater">>,
                     <<"Updater", "Deb">>}

\* what bundle_project can return: one Bundle per package type, with its artifacts
BundleOutputs(ts) ==
  LET lists == IF IsSome(ts) THEN {Unwrap(ts)} ELSE DefaultTypeLists IN
  UNION { { [i \in 1..Len(l) |->
               [package_type |-> l[i],
                bundle_paths |-> [j \in 1..n[i] |-> PathTable[i][j]]]]
            : n \in [1..Len(l) -> 1..MaxPaths] }
          : l \in lists }

\* seeded fault: the filter on the package type is missing
IsUpdaterAny(bundle) == TRUE

\* |bundle| bundle.package_type == PackageType::Updater
IsUpdater(bundle) == bundle.package_type = "Updater"

\* bundles.iter().filter(Updater) x elem.bundle_paths.iter(), flattened
RECURSIVE UpdaterPaths(_)
UpdaterPaths(bs) ==
  IF bs = <<>> THEN <<>>
  ELSE (IF IsUpdater(Head(bs)) THEN Head(bs).bundle_paths ELSE <<>>)
       \o UpdaterPaths(Tail(bs))

\* seeded fault: || in place of &&
SigningEnabledEither(c) == c.updater_active \/ IsSome(c.updater_pubkey)

\* if config_.tauri.updater.active && config_.tauri.updater.pubkey.is_some()
SigningEnabled(c) == c.updater_active /\ IsSome(c.updater_pubkey)

BundlerArgs ==
  (IF self.verbose THEN <<"verbose">> ELSE <<>>)
  \o (IF IsSome(types) THEN <<"package_types">> \o Unwrap(types) ELSE <<>>)

\* bundle_project(settings), then the decision to sign; with nothing to sign
\* signed_paths stays empty and run returns Ok
bundle_project ==
  /\ pc = "bundle_project"
  /\ \E ok \in BOOLEAN :
       /\ Logged(<<Call("bundle_project", BundlerArgs, ok)>>)
       /\ IF ok
            THEN \E bs \in BundleOutputs(types) :
                   /\ bundles' = bs
                   /\ IF SigningEnabled(config_) /\ UpdaterPaths(bs) # <<>>
                        THEN /\ todo' = UpdaterPaths(bs)
                             /\ pc' = "sign"
                             /\ UNCHANGED << result, lockHeld >>
                        ELSE /\ Return(Ok)
                             /\ UNCHANGED todo
            ELSE /\ Return(Err("Bundle", "failed to bundle project"))
                 /\ UNCHANGED << bundles, todo >>
  /\ UNCHANGED << self, calls, platform, distExists, distAtStart, config, exit_status, types,
                  signed_paths, printed >>

\* seeded fault: a signing failure is skipped, the loop goes on with the next
\* artifact and what was signed is reported
sign_file_keeps_going ==
  /\ pc = "sign"
  /\ todo # <<>>
  /\ \E ok \in BOOLEAN :
       /\ Logged(<<Call("sign", <<Head(todo)>>, ok)>>)
       /\ signed_paths' = IF ok THEN signed_paths \o <<SignaturePath(Head(todo))>>
                                ELSE signed_paths
  /\ IF Tail(todo) # <<>>
       THEN /\ pc' = "sign"
            /\ UNCHANGED << result, lockHeld >>
       ELSE IF signed_paths' # <<>>
         THEN /\ pc' = "print"
              /\ UNCHANGED << result, lockHeld >>
         ELSE Return(Ok)
  /\ todo' = Tail(todo)
  /\ UNCHANGED << self, calls, platform, distExists, distAtStart, config, exit_status, types,
                  bundles, printed >>

\* one iteration of the signing loop: sign_file_from_env_variables(path)?;
\* after the last one signed_paths is not empty and the report is printed
sign_file_from_env_variables ==
  /\ pc = "sign"
  /\ todo # <<>>
  /\ \E ok \in BOOLEAN :
       /\ Try("sign", <<Head(todo)>>, ok,
              IF Tail(todo) = <<>> THEN "print" ELSE "sign", "Signing", "")
       /\ signed_paths' = IF ok THEN signed_paths \o <<SignaturePath(Head(todo))>>
                                ELSE signed_paths
  /\ todo' = Tail(todo)
  /\ UNCHANGED << self, calls, platform, distExists, distAtStart, config, exit_status, types,
                  bundles, printed >>

\* seeded fault: the singular is never used
PluralisedAlways(n) == "updater archives"

Pluralised(n) == IF n = 1 THEN "updater archive" ELSE "updater archives"

print_signed_updater_archive ==
  /\ pc = "print"
  /\ signed_paths # <<>>
  /\ printed' = Some([count |-> Len(signed_paths),
                      pluralised |-> Pluralised(Len(signed_paths)),
                      paths |-> signed_paths])
  /\ Return(Ok)
  /\ UNCHANGED << self, calls, platform, distExists, distAtStart, config, exit_status, types,
                  bundles, todo, signed_paths, log >>

Next ==
  \/ debug \/ verbose \/ runner \/ SetBundles
  \/ run \/ set_current_dir \/ rewrite_manifest \/ before_build
  \/ dist_dir \/ build_project \/ app_settings \/ rename
  \/ merge_modules \/ settings_builder \/ package_types \/ build
  \/ bundle_project \/ sign_file_from_env_variables
  \/ print_signed_updater_archive

Spec == Init /\ [][Next]_vars

TypeOK ==
  /\ pc \in {"builder", "set_current_dir", "rewrite_manifest",
             "before_build", "dist_dir", "build_project", "app_settings",
             "rename", "bundle", "settings_builder",
             "package_types", "build", "bundle_project", "sign", "print", "done"}
  /\ (pc = "done") = (result # Running)
  /\ calls \in 0..MaxCalls

\* ------------------------------------------------------ history predicates
Done == pc = "done"
\* some call of this kind failed
Failed(stage) == \E i \in DOMAIN log : log[i].stage = stage /\ ~log[i].ok
\* some call of this kind succeeded
Succeeded(stage) == \E i \in DOMAIN log : log[i].stage = stage /\ log[i].ok
AllOk == \A i \in DOMAIN log : log[i].ok
\* the dist-dir check ran and found the path missing
CheckedMissing == Failed("exists")
\* a non-empty before-build command is configured
HookConfigured ==
  /\ IsSome(config_.before_build_command)
  /\ Unwrap(config_.before_build_command) # ""
\* the requested-format list went through the validation loop
Validated == Count("from_short_name") = 1
Unrecognized(name) == name # "none" /\ from_short_name(name) = None
BadAt(names) == {i \in DOMAIN names : Unrecognized(names[i])}
NoneAt(names) == {i \in DOMAIN names : names[i] = "none"}
Min(S) == CHOOSE x \in S : \A y \in S : x <= y
\* how often the signer was invoked on path p
SignCount(p) == Len(SelectSeq(log, LAMBDA c : c.stage = "sign" /\ c.arg = <<p>>))
PathsOf(b) == {b.bundle_paths[j] : j \in DOMAIN b.bundle_paths}

\* ------------------------------------------------------------------ claims

\* C1 as stated, for the runs that got as far as taking the configuration
\* lock: if the distDir is missing at the start and at the end of the run, the
\* run fails with the missing-web-assets error and the compiler is not invoked.
C1_Original ==
  (Done /\ Succeeded("rewrite_manifest") /\ ~distAtStart /\ ~distExists)
    => (result.kind = "MissingWebAssets" /\ Count("build_project") = 0)

\* C1 (amended): in every run that reaches the dist-dir check and finds the
\* configured path missing, the run has returned the missing-web-assets error
\* naming that path and the compiler was invoked zero times; and the compiler
\* is invoked only after the check has found the path present.
C1_MissingDistDir ==
  /\ CheckedMissing => /\ Done
                       /\ result = Err("MissingWebAssets", config_.dist_dir)
                       /\ Count("build_project") = 0
  /\ Count("build_project") > 0 => (Succeeded("exists") /\ distExists)

C1_Witness == Done /\ CheckedMissing /\ ~distAtStart /\ Count("before_build") = 1

\* C2 as stated, for the runs that reach the validation of the names: a list
\* with one unrecognized name makes the run fail with the unsupported-format
\* error naming it, and the bundler is never invoked.
C2_Original ==
  (Done /\ Validated /\ Cardinality(BadAt(Unwrap(self.bundles))) = 1)
    => LET names == Unwrap(self.bundles) IN
       /\ result = Err("UnsupportedBundleFormat", names[Min(BadAt(names))])
       /\ Count("bundle_project") = 0

\* C2 (amended): when an unrecognized name occurs in the requested list before
\* any "none", the bundler is never invoked, and a run that reaches the
\* validation fails with the unsupported-format error naming the first such
\* name; an unrecognized name that follows a "none" raises no error.
C2_UnrecognizedBeforeNone ==
  IsSome(self.bundles) =>
    LET names == Unwrap(self.bundles)
        bad == BadAt(names)
        none == NoneAt(names)
    IN  /\ (bad # {} /\ \A j \in none : Min(bad) < j) =>
             /\ Count("bundle_project") = 0
             /\ Validated =>
                  /\ Done
                  /\ result = Err("UnsupportedBundleFormat", names[Min(bad)])
        /\ (none # {} /\ \A i \in bad : Min(none) < i) =>
             result.kind # "UnsupportedBundleFormat"

C2_Witness ==
  /\ Done
  /\ result = Err("UnsupportedBundleFormat", "bogus")
  /\ Len(Unwrap(self.bundles)) = MaxNames
  /\ Unwrap(self.bundles)[MaxNames] = "bogus"

\* C3 as stated: when the requested list is ["none"] the bundler is invoked
\* zero times.
C3_Original ==
  (Done /\ self.bundles = Some(<<"none">>)) => Count("bundle_project") = 0

\* C3 (amended): when the requested list is ["none"] the run never fails with
\* the unsupported-format error; the validation hands the bundler an empty
\* list of package types, and the bundler is invoked at most once, only when
\* bundle.active is true and only with that empty list; if every stage
\* succeeds the run returns Ok, with the bundler invoked once when bundle.active.
C3_NoneRequestsNoTypes ==
  self.bundles = Some(<<"none">>) =>
    /\ result.kind # "UnsupportedBundleFormat"
    /\ Validated => (types = Some(<<>>) /\ ~Failed("from_short_name"))
    /\ Count("bundle_project") <= 1
    /\ \A i \in DOMAIN log : log[i].stage = "bundle_project" =>
         /\ config_.bundle_active
         /\ log[i].arg \in {<<"package_types">>, <<"verbose", "package_types">>}
    /\ (Done /\ AllOk /\ IsSome(config)) =>
         /\ result = Ok
         /\ Count("bundle_project") = IF config_.bundle_active THEN 1 ELSE 0

C3_Witness ==
  /\ Done
  /\ self.bundles = Some(<<"none">>)
  /\ result = Ok
  /\ Count("bundle_project") = 1

\* C4: the runner handed to the compiler is the builder's override if one was
\* set, otherwise the configuration's build.runner if present, otherwise "cargo".
C4_RunnerPrecedence ==
  \A i \in DOMAIN log : log[i].stage = "build_project" =>
    LET r == log[i].arg[1] IN
    /\ self.runner # None => r = self.runner[1]
    /\ (self.runner = None /\ config_.runner # None) => r = config_.runner[1]
    /\ (self.runner = None /\ config_.runner = None) => r = "cargo"

C4_Witness ==
  /\ Count("build_project") = 1
  /\ self.runner # None
  /\ config_.runner # None
  /\ self.runner # config_.runner

\* C5 as stated, for the runs in which the bundler returned: with the updater
\* active and a public key configured, at the end of the run the signer has
\* been invoked exactly once on every artifact path of every Updater bundle
\* and never on a path of another bundle.
C5_Original ==
  (Done /\ Succeeded("bundle_project")
        /\ config_.updater_active /\ config_.updater_pubkey # None)
    => \A i \in DOMAIN bundles : \A p \in PathsOf(bundles[i]) :
         SignCount(p) = IF bundles[i].package_type = "Updater" THEN 1 ELSE 0

\* C5 (amended): with the updater active and a public key configured, the
\* signer is never invoked on an artifact of a bundle that is not of type
\* Updater, at most once on each artifact of an Updater bundle, and exactly
\* once on each of them in every run in which no signer invocation failed.
C5_SignedOncePerUpdaterArtifact ==
  (Succeeded("bundle_project")
     /\ config_.updater_active /\ config_.updater_pubkey # None)
    => \A i \in DOMAIN bundles : \A p \in PathsOf(bundles[i]) :
         IF bundles[i].package_type = "Updater"
           THEN /\ SignCount(p) <= 1
                /\ (Done /\ ~Failed("sign")) => SignCount(p) = 1
           ELSE SignCount(p) = 0

C5_Witness ==
  /\ Done
  /\ result = Ok
  /\ Count("sign") >= 1
  /\ \E i \in DOMAIN bundles : bundles[i].package_type # "Updater"

\* C6: when the updater flag is false or no public key is configured, the
\* signer is never invoked and nothing is reported as signed, whatever bundles
\* the bundler produced.
C6_NoSigningWithoutFlagAndKey ==
  (IsSome(config) /\ (~config_.updater_active \/ config_.updater_pubkey = None))
    => (Count("sign") = 0 /\ signed_paths = <<>> /\ printed = None)

C6_Witness ==
  /\ Done
  /\ result = Ok
  /\ config_.updater_active
  /\ config_.updater_pubkey = None
  /\ \E i \in DOMAIN bundles : bundles[i].package_type = "Updater"

\* C7: the hook is spawned only for a non-empty command; a non-zero exit
\* status makes the run return the pre-build-hook error carrying the command,
\* with the hook as the last stage that ran; after a zero exit status the next
\* stage is the dist-dir check.
C7_HookExitStatus ==
  IsSome(exit_status) =>
    LET cmd == Unwrap(config_.before_build_command)
        k == CHOOSE i \in DOMAIN log : log[i].stage = "before_build"
    IN  /\ cmd # ""
        /\ Count("before_build") = 1
        /\ Unwrap(exit_status) # 0 =>
             /\ Done
             /\ result = Err("PreBuildHook", cmd)
             /\ Len(log) = k
        /\ Unwrap(exit_status) = 0 =>
             /\ result.kind # "PreBuildHook"
             /\ IF Len(log) = k THEN pc = "dist_dir"
                                ELSE log[k + 1].stage = "exists"

C7_Witness == Done /\ result.kind = "PreBuildHook" /\ exit_status = Some(1)

\* C8 as stated, for the runs that reach the dist-dir check: with the distDir
\* missing, no child process at all (hook, compiler, signer) is spawned.
C8_Original ==
  (CheckedMissing /\ ~distAtStart)
    => /\ Count("before_build") = 0
       /\ Count("build_project") = 0
       /\ Count("sign") = 0

\* C8 (amended): in every run that finds the distDir missing, the pipeline
\* fails with the missing-web-assets error and neither the compiler nor the
\* signer is spawned; the before-build hook is the one child process spawned,
\* once, when a non-empty command is configured, and none is otherwise.
C8_OnlyTheHookIsSpawned ==
  CheckedMissing =>
    /\ result.kind = "MissingWebAssets"
    /\ Count("build_project") = 0
    /\ Count("sign") = 0
    /\ Count("before_build") = IF HookConfigured THEN 1 ELSE 0

C8_Witness ==
  /\ Done
  /\ CheckedMissing
  /\ config_.before_build_command = Some("")
  /\ Len(log) = Count("get_config") + Count("set_current_dir")
                  + Count("rewrite_manifest") + Count("exists")

\* C9: with the distDir present, no before-build command, bundle.active false
\* and every stage that ran succeeding, run returns Ok, the compiler was
\* invoked exactly once, the bundler and the signer never, and no signed-path
\* report was printed.
C9_PlainBuild ==
  (Done /\ IsSome(config) /\ AllOk /\ distAtStart
        /\ config_.before_build_command = None /\ ~config_.bundle_active)
    => /\ result = Ok
       /\ Count("build_project") = 1
       /\ Count("bundle_project") = 0
       /\ Count("sign") = 0
       /\ printed = None

C9_Witness ==
  /\ Done
  /\ result = Ok
  /\ distAtStart
  /\ config_.before_build_command = None
  /\ ~config_.bundle_active
  /\ config_.updater_active
  /\ Count("build_project") = 1

\* the stages whose failure the pipeline propagates, and the error of each
ErrorOf(stage) ==
  CASE stage = "get_config"          -> "ConfigLoad"
    [] stage = "set_current_dir"     -> "WorkingDirectory"
    [] stage = "rewrite_manifest"    -> "ManifestRewrite"
    [] stage = "before_build"        -> "PreBuildHook"
    [] stage = "exists"              -> "MissingWebAssets"
    [] stage = "build_project"       -> "Compile"
    [] stage = "app_settings"        -> "AppSettings"
    [] stage = "get_out_dir"         -> "OutDir"
    [] stage = "rename"              -> "Rename"
    [] stage = "write"               -> "MergeModuleWrite"
    [] stage = "get_bundle_settings" -> "BundleSettings"
    [] stage = "get_binaries"        -> "Binaries"
    [] stage = "from_short_name"     -> "UnsupportedBundleFormat"
    [] stage = "build"               -> "SettingsBuild"
    [] stage = "bundle_project"      -> "Bundle"
    [] stage = "sign"                -> "Signing"
FatalStages ==
  {"get_config", "set_current_dir", "rewrite_manifest", "before_build", "exists",
   "build_project", "app_settings", "get_out_dir", "rename", "write",
   "get_bundle_settings", "get_binaries", "from_short_name", "build",
   "bundle_project", "sign"}

\* C10: when one of the listed stages fails, run has returned that stage's
\* error and the failed stage is the last one that executed; run returns Ok
\* only if every listed stage it executed succeeded.
C10_FailureStopsThePipeline ==
  /\ \A i \in DOMAIN log :
       (log[i].stage \in FatalStages /\ ~log[i].ok) =>
         /\ i = Len(log)
         /\ Done
         /\ result.kind = ErrorOf(log[i].stage)
  /\ result = Ok => \A i \in DOMAIN log : log[i].stage \in FatalStages => log[i].ok
  /\ (Done /\ result # Ok) => ~log[Len(log)].ok

C10_Witness ==
  /\ Done
  /\ Failed("bundle_project")
  /\ result.kind = "Bundle"
  /\ Succeeded("rename")

\* the positions in log of the calls of one kind
At(stage) == {i \in DOMAIN log : log[i].stage = stage}

\* C11: once the signer has failed for one updater artifact, that call is the
\* last call of the run (no further artifact is signed), run has returned the
\* signing error, and no signed-path report was printed, whatever was signed
\* before the failure.
C11_FirstSigningFailureIsFatal ==
  \A i \in At("sign") :
    ~log[i].ok =>
      /\ i = Len(log)
      /\ Done
      /\ result.kind = "Signing"
      /\ printed = None

\* an artifact was signed, the next one failed
C11_Witness ==
  /\ Failed("sign")
  /\ Succeeded("sign")
  /\ signed_paths # <<>>
  /\ result.kind = "Signing"

\* the next step of run starts a long-running external process
StartsProcess ==
  \/ pc = "before_build" /\ HookConfigured
  \/ pc \in {"build_project", "bundle_project", "sign"}

\* C12: at no moment when the before-build hook, the compiler, the bundler or
\* the signer is started does run hold the configuration lock; the lock is
\* taken for the read of the before-build command and released before the
\* hook is executed.
C12_LockReleasedBeforeProcesses ==
  StartsProcess => ~lockHeld

\* the place of each kind of call in the pipeline
RankOf ==
  [ get_config          |-> 1,
    set_current_dir     |-> 2,
    rewrite_manifest    |-> 3,
    before_build        |-> 4,
    exists              |-> 5,
    build_project       |-> 6,
    app_settings        |-> 7,
    get_out_dir         |-> 8,
    rename              |-> 9,
    remove_file         |-> 10,
    write               |-> 11,
    get_bundle_settings |-> 12,
    get_binaries        |-> 13,
    from_short_name     |-> 14,
    build               |-> 15,
    bundle_project      |-> 16,
    sign                |-> 17 ]
Rank(stage) == RankOf[stage]

\* C13: the calls of a run are made in the fixed order of the pipeline (load
\* config, change directory, rewrite manifest, hook, dist-dir check, compiler,
\* app settings and out dir, rename, merge-module staging, bundler, signing),
\* only the signer more than once; a call is made only after the one before it
\* has succeeded; the report is printed only after every signing succeeded.
\* The compiler is invoked only after the dist-dir check, and the hook if there
\* is one, have succeeded, the bundler only after the compiler has succeeded
\* and the rename, if there is one, has succeeded.
C13_FixedStageOrder ==
  /\ log # <<>> => log[1].stage = "get_config"
  /\ \A i \in DOMAIN log :
       i < Len(log) =>
         /\ log[i].ok
         /\ \/ Rank(log[i].stage) < Rank(log[i + 1].stage)
            \/ log[i].stage = "sign" /\ log[i + 1].stage = "sign"
  /\ Count("build_project") > 0 =>
       /\ Succeeded("exists")
       /\ HookConfigured => Succeeded("before_build")
  /\ Count("bundle_project") > 0 =>
       /\ Succeeded("build_project")
       /\ IsSome(config_.product_name) => Succeeded("rename")
  /\ printed # None => (Done /\ Count("sign") > 0 /\ AllOk)

\* a run in which every stage executed, up to the report
C13_Witness ==
  /\ printed # None
  /\ Count("before_build") = 1
  /\ Count("rename") = 1
  /\ Count("write") = 1
  /\ Count("from_short_name") = 1

\* C14 as stated: whenever run fails with the unsupported-bundle-format error,
\* no merge-module resource has been removed or written and the bundler has
\* not been invoked.
C14_Original ==
  result.kind = "UnsupportedBundleFormat" =>
    /\ Count("remove_file") = 0
    /\ Count("write") = 0
    /\ Count("bundle_project") = 0

\* C14 (amended): whenever run fails with the unsupported-bundle-format error,
\* neither the bundler nor the signer has been invoked; on Windows the stale
\* merge module has already been removed and the matching one written, as the
\* staging comes before the validation of the names; elsewhere no merge
\* module has been touched.
C14_StagedBeforeValidation ==
  result.kind = "UnsupportedBundleFormat" =>
    /\ Count("bundle_project") = 0
    /\ Count("sign") = 0
    /\ IF platform = "windows"
         THEN /\ Count("remove_file") = 1
              /\ Count("write") = 1
              /\ Succeeded("write")
              /\ \A i \in At("write") : \A j \in At("from_short_name") : i < j
         ELSE /\ Count("remove_file") = 0
              /\ Count("write") = 0

\* a Windows run rejected for its format list, the merge module staged
C14_Witness ==
  /\ result.kind = "UnsupportedBundleFormat"
  /\ platform = "windows"
  /\ Succeeded("write")

\* C15 as stated: a requested list that contains "none" never makes the run
\* fail with the unsupported-format error, and no package type is bundled.
C15_Original ==
  (IsSome(self.bundles) /\ NoneAt(Unwrap(self.bundles)) # {}) =>
    /\ result.kind # "UnsupportedBundleFormat"
    /\ bundles = <<>>

\* C15 (amended): in a requested list that contains "none", the names after
\* the first "none" are ignored and the names before it are treated as in any
\* list: if all of them are recognized the validation raises no error and the
\* bundler is asked for exactly their package types, in order (for none at
\* all when "none" comes first); if one of them is not recognized, a run that
\* reaches the validation fails with the unsupported-format error naming the
\* first such name.
C15_NoneCutsTheList ==
  (IsSome(self.bundles) /\ NoneAt(Unwrap(self.bundles)) # {}) =>
    LET names == Unwrap(self.bundles)
        k == Min(NoneAt(names))
        before == SubSeq(names, 1, k - 1)
        wanted == [i \in 1..(k - 1) |-> Unwrap(from_short_name(names[i]))]
    IN  IF \A i \in 1..(k - 1) : IsSome(from_short_name(names[i]))
          THEN /\ result.kind # "UnsupportedBundleFormat"
               /\ Validated => types = Some(wanted)
               /\ \A i \in At("bundle_project") :
                    log[i].arg \in {<<"package_types">> \o wanted,
                                    <<"verbose", "package_types">> \o wanted}
               /\ Succeeded("bundle_project") =>
                    [i \in DOMAIN bundles |-> bundles[i].package_type] = wanted
          ELSE /\ Validated =>
                    result = Err("UnsupportedBundleFormat",
                                 before[Min(BadAt(before))])
               /\ Count("bundle_project") = 0

\* the updater bundle requested before a "none" was produced
C15_Witness ==
  /\ self.bundles = Some(<<"updater", "none">>)
  /\ Succeeded("bundle_project")
  /\ Len(bundles) = 1
  /\ bundles[1].package_type = "Updater"

\* C16 as stated, in the direction that fails: the binary is renamed only if
\* the configured product name is distinct from the binary's default name.
C16_Original ==
  Count("rename") > 0 =>
    /\ IsSome(config_.product_name)
    /\ Unwrap(config_.product_name) # BinName

\* C16 (amended): the binary is renamed, once, if and only if a product name
\* is configured, whether or not it differs from the binary's default name,
\* and the run got past the out-dir resolution; the rename goes from the
\* binary's name to the product name in out_dir, both with .exe on Windows
\* and without suffix elsewhere, comes after the compiler succeeded, and its
\* failure returns the rename error before any merge module is staged and
\* before the bundler is invoked.
C16_RenamedWheneverProductName ==
  /\ Count("rename") <= 1
  /\ (Succeeded("get_out_dir") /\ pc # "rename") =>
       (Count("rename") = 1) = IsSome(config_.product_name)
  /\ \A i \in At("rename") :
       /\ IsSome(config_.product_name)
       /\ log[i].arg =
            IF platform = "windows"
              THEN <<ExeName(BinName), ExeName(Unwrap(config_.product_name))>>
              ELSE <<BinName, Unwrap(config_.product_name)>>
       /\ \E j \in At("build_project") : j < i /\ log[j].ok
       /\ \E j \in At("get_out_dir") : j < i /\ log[j].ok
       /\ ~log[i].ok =>
            /\ Done
            /\ result.kind = "Rename"
            /\ Count("remove_file") = 0
            /\ Count("write") = 0
            /\ Count("bundle_project") = 0

\* a product name equal to the binary's name: the binary is renamed onto itself
C16_Witness ==
  /\ Succeeded("rename")
  /\ platform = "windows"
  /\ config_.product_name = Some(BinName)
  /\ CallsOf("rename")[1].arg = <<"app.exe", "app.exe">>

\* C17: the hook child process is spawned at most once in a run.  Once run is
\* past the hook stage: with no before-build command or an empty one, no hook
\* was spawned, run did not fail with the hook error and it went on to the
\* dist-dir check; with a non-empty command exactly one hook was spawned, as
\* `cmd /C <command>` on Windows and as `sh -c <command>` elsewhere.
C17_EmptyCommandIsNoOp ==
  /\ Count("before_build") <= 1
  /\ (Succeeded("rewrite_manifest") /\ pc # "before_build") =>
       LET cmd == config_.before_build_command IN
       IF cmd = None \/ cmd = Some("")
         THEN /\ Count("before_build") = 0
              /\ result.kind # "PreBuildHook"
              /\ pc = "dist_dir" \/ Count("exists") = 1
         ELSE /\ Count("before_build") = 1
              /\ CallsOf("before_build")[1].arg =
                   IF platform = "windows" THEN <<"cmd", "/C", Unwrap(cmd)>>
                                           ELSE <<"sh", "-c", Unwrap(cmd)>>

\* a hook run through cmd /C
C17_Witness ==
  /\ platform = "windows"
  /\ Count("before_build") = 1
  /\ CallsOf("before_build")[1].arg = <<"cmd", "/C", "npm run build">>
  /\ pc = "dist_dir"

\* C18: when run has returned, the signed-path report was printed if and only
\* if run returned Ok and the signer produced at least one signature; nothing
\* is printed before.  The count of the report is the number of signatures
\* collected, worded "updater archive" for one and "updater archives"
\* otherwise, and the paths that follow are the signature paths of the signed
\* artifacts, one entry for each, in the order of signing.
C18_ReportOfSignedPaths ==
  /\ ~Done => printed = None
  /\ Done => ((printed # None) = (result = Ok /\ Succeeded("sign")))
  /\ printed # None =>
       LET r == Unwrap(printed)
           signs == CallsOf("sign")
       IN  /\ r.count = Len(signs)
           /\ r.count = Len(signed_paths)
           /\ r.pluralised = IF r.count = 1 THEN "updater archive"
                                            ELSE "updater archives"
           /\ r.paths = [i \in 1..Len(signs) |-> SignaturePath(signs[i].arg[1])]

\* a report of two signatures
C18_Witness ==
  /\ printed # None
  /\ Unwrap(printed).count = 2
  /\ Unwrap(printed).pluralised = "updater archives"
  /\ Unwrap(printed).paths = <<"b1/a1.sig", "b2/a1.sig">>

\* C19: when bundle.active is false, neither the bundler nor the signer is
\* invoked and no signed-path report is printed, also with the updater active
\* and a public key configured; and every invocation of the signer comes after
\* a successful return of the bundler.
C19_SigningNestedInBundling ==
  /\ (IsSome(config) /\ ~config_.bundle_active) =>
       /\ Count("bundle_project") = 0
       /\ Count("sign") = 0
       /\ printed = None
       /\ todo = <<>>
  /\ \A i \in At("sign") :
       \E j \in At("bundle_project") : j < i /\ log[j].ok

\* a finished run with the updater fully configured and bundling switched off
C19_Witness ==
  /\ Done
  /\ result = Ok
  /\ ~config_.bundle_active
  /\ config_.updater_active
  /\ IsSome(config_.updater_pubkey)
  /\ Succeeded("get_out_dir")

\* C20: the dist-dir check comes after the successful exit of the hook when a
\* hook is configured, and sees the distDir as the hook left it: a run whose
\* distDir was absent at the start and was created by the hook passes the
\* check and goes on to the compiler, the compiler is reached with a distDir
\* absent at the start only that way, and with a hook configured the
\* missing-web-assets error is returned only after the hook has run.
C20_DistDirCheckedAfterHook ==
  /\ \A i \in At("exists") :
       /\ log[i].ok = distExists
       /\ HookConfigured => \E j \in At("before_build") : j < i /\ log[j].ok
  /\ (~distAtStart /\ Succeeded("before_build") /\ distExists
        /\ Count("exists") = 1) =>
       /\ Succeeded("exists")
       /\ result.kind # "MissingWebAssets"
       /\ pc = "build_project" \/ Count("build_project") = 1
  /\ (~distAtStart /\ Count("build_project") > 0) =>
       (Succeeded("before_build") /\ distExists)
  /\ (result.kind = "MissingWebAssets" /\ HookConfigured) =>
       Succeeded("before_build")

\* the hook created the distDir and the compiler was reached
C20_Witness ==
  /\ ~distAtStart
  /\ Succeeded("before_build")
  /\ Succeeded("exists")
  /\ Count("build_project") = 1

====
